---- MODULE Spec2Model ----
(***************************************************************************)
(* A model of the searchfox Python layer:                                  *)
(*   - examples/code_analyzer.py: MozillaCodeAnalyzer (find_implementations,*)
(*     find_method_calls, get_class_hierarchy), one analyzer object used by *)
(*     one or two callers;                                                 *)
(*   - searchfox/__init__.py: the module-level search() wrapper.           *)
(* The remote service is a fixed table from queries to responses (a list   *)
(* of (path, line_number, line) rows, or a transport failure).  A source   *)
(* line is a sequence of tokens; the token " " is a run of whitespace.     *)
(***************************************************************************)
EXTENDS Integers, Sequences, FiniteSets, TLC

VARIABLES
    session,        \* the analyzer object: [repo, client]
    responses,      \* the remote service: query -> [ok, rows]
    pc,             \* per caller: idle, hier, symbol, fallback, dedup, done, raised
    args,           \* per caller: the arguments of the running operation
    stack,          \* per caller: the activation records of get_class_hierarchy
    all_results,    \* per caller: find_method_calls' all_results
    idx,            \* per caller: position of the dedup loop in all_results
    seen,           \* per caller: find_method_calls' seen
    unique_results, \* per caller: find_method_calls' unique_results
    retTree,        \* per caller: the value get_class_hierarchy returned
    retList,        \* per caller: the value find_method_calls returned
    queries,        \* per caller: the queries it issued, in order (history)
    handed,         \* search(): the keyword arguments handed to client.search
    sent            \* search(): the parameter set handed to the transport

vars == <<session, responses, pc, args, stack, all_results, idx, seen,
          unique_results, retTree, retList, queries, handed, sent>>

-----------------------------------------------------------------------------
(* Bounds *)

MaxFan == 2          \* rows in one response to a class query
MaxDepth == 2        \* largest depth argument of get_class_hierarchy
MaxRows == 3         \* rows in one response to a method query
ConcDepth == 1       \* largest depth argument when two callers share the analyzer

(* Program constants *)

HierLimit == 30      \* limit=30 in get_class_hierarchy
CallsLimit == 50     \* limit=50, the default of find_method_calls
SearchLimit == 50    \* limit=50, the default of search()

Threads == {1, 2}
Labels == {"A", "B"}
Depths == (0 - 1) .. MaxDepth
DefaultRepo == "mozilla-central"

(* Source lines: "class A : public B", "    class B", "friend class ;" *)
LineA == <<"class", "A", ":", "public", "B">>
LineB == <<" ", "class", "B">>
LineN == <<"friend", "class", ";">>
HierLines == {LineA, LineB, LineN}
HierRows == {<<"a.h", 1, l>> : l \in HierLines}

(* Rows of a method query: two share the key ("f1", 1) *)
CallRows == {<<"f1", 1, <<"x">>>>, <<"f1", 1, <<"y">>>>,
             <<"f1", 2, <<"x">>>>, <<"f2", 1, <<"x">>>>}
ClassNames == {"K"}
MethodNames == {"m"}

SeqsUpTo(S, n) == UNION {[1..k -> S] : k \in 0..n}

-----------------------------------------------------------------------------
(* Queries and the transport *)

SymbolQuery(term, limit) ==
    [kind |-> "symbol", term |-> term, cpp |-> TRUE, limit |-> limit]

IdQuery(term, limit) ==
    [kind |-> "id", term |-> term, cpp |-> TRUE, limit |-> limit]

FullMethod(class_name, method_name) == <<class_name, "::", method_name>>

ClassQueries == {SymbolQuery(<<l>>, HierLimit) : l \in Labels}
MethodQueries ==
    {SymbolQuery(FullMethod(c, m), CallsLimit) : c \in ClassNames, m \in MethodNames}
    \cup {IdQuery(<<m>>, CallsLimit) : m \in MethodNames}
AllQueries == ClassQueries \cup MethodQueries

Ok(rows) == [ok |-> TRUE, rows |-> rows]
Failure == [ok |-> FALSE, rows |-> <<>>]

(* self.client.search(...): the response of the remote service *)
ClientSearch(client, q) == responses[q]

NewSearchfoxClient(repo, log_requests) ==
    [repo |-> repo, log_requests |-> log_requests]

NewAnalyzer(repo) ==
    [client |-> NewSearchfoxClient(repo, FALSE), repo |-> repo]

-----------------------------------------------------------------------------
(* find_implementations *)

IsWord(tok) == tok \in {"class", "friend", "public", "A", "B", "x", "y"}

(* re.search(r'class\s+(\w+)', line): the position of the captured word,   *)
(* for the leftmost match, or 0 when there is none.  Adjacent tokens are   *)
(* one space apart; no line here has a token that merely ends in "class".  *)
ReSearchClass(line) ==
    LET hits == {i \in 1..Len(line) :
                    /\ line[i] = "class"
                    /\ \E j \in (i+1)..Len(line) :
                          /\ IsWord(line[j])
                          /\ \A k \in (i+1)..(j-1) : line[k] = " "}
    IN  IF hits = {} THEN 0
        ELSE LET i == CHOOSE h \in hits : \A g \in hits : h <= g
             IN  CHOOSE j \in (i+1)..Len(line) :
                    IsWord(line[j]) /\ \A k \in (i+1)..(j-1) : line[k] = " "

RECURSIVE LStrip(_)
LStrip(line) ==
    IF line # <<>> /\ Head(line) = " " THEN LStrip(Tail(line)) ELSE line

RECURSIVE RStrip(_)
RStrip(line) ==
    IF line # <<>> /\ line[Len(line)] = " "
    THEN RStrip(SubSeq(line, 1, Len(line) - 1))
    ELSE line

Strip(line) == LStrip(RStrip(line))

RECURSIVE ParseImplementationsReversed(_)
ParseImplementationsReversed(results) ==
    IF results = <<>> THEN <<>>
    ELSE LET r == Head(results)
             m == ReSearchClass(r[3])
         IN  ParseImplementationsReversed(Tail(results))
             \o (IF m # 0
                 THEN <<[class |-> r[3][m], path |-> r[1], line |-> r[2],
                         full_line |-> Strip(r[3])]>>
                 ELSE <<>>)

RECURSIVE ParseImplementations(_)
ParseImplementations(results) ==
    IF results = <<>> THEN <<>>
    ELSE LET r == Head(results)
             m == ReSearchClass(r[3])
         IN  (IF m # 0
              THEN <<[class |-> r[3][m], path |-> r[1], line |-> r[2],
                      full_line |-> Strip(r[3])]>>
              ELSE <<>>)
             \o ParseImplementations(Tail(results))

FindImplQuery(interface, limit) == SymbolQuery(<<interface>>, limit)

(* The value find_implementations returns when the search succeeds *)
find_implementations(self, interface, limit) ==
    ParseImplementations(ClientSearch(self.client, FindImplQuery(interface, limit)).rows)

-----------------------------------------------------------------------------
(* get_class_hierarchy, one step per action *)

NewHierarchy(base_class) == [class |-> base_class, derived |-> <<>>]

NewFrame(base_class, depth) ==
    [base_class |-> base_class, depth |-> depth,
     hierarchy |-> NewHierarchy(base_class),
     implementations |-> <<>>, i |-> 1, at |-> "call"]

Top(t) == stack[t][Len(stack[t])]

SetTop(t, f) == [stack[t] EXCEPT ![Len(stack[t])] = f]

(* line 108: if depth > 0 *)
DescendsAtZero(depth) == depth >= 0

Descends(depth) == depth > 0

NextDepth(depth) == depth - 1

LeafNodesDropped(implementations) == <<>>

LeafNodes(implementations) ==
    [k \in 1..Len(implementations) |->
        [class |-> implementations[k].class, derived |-> <<>>]]

AfterReturn(frame, sub_hierarchy) ==
    [frame EXCEPT !.hierarchy.derived = Append(@, sub_hierarchy),
                  !.i = @ + 1]

HierUnchanged ==
    UNCHANGED <<session, responses, all_results, idx, seen, unique_results,
                retList, handed, sent>>

HierStart(t, depths) ==
    /\ pc[t] = "idle"
    /\ \E b \in Labels, d \in depths :
          /\ args' = [args EXCEPT ![t] = [op |-> "hier", base_class |-> b, depth |-> d]]
          /\ stack' = [stack EXCEPT ![t] = <<NewFrame(b, d)>>]
    /\ pc' = [pc EXCEPT ![t] = "hier"]
    /\ UNCHANGED <<retTree, queries>>
    /\ HierUnchanged

HierCall(t) == HierStart(t, Depths)

HierExpand(t) ==
    /\ pc[t] = "hier"
    /\ Top(t).at = "call"
    /\ LET q == FindImplQuery(Top(t).base_class, HierLimit)
       IN  /\ ClientSearch(session.client, q).ok
           /\ queries' = [queries EXCEPT ![t] =
                            Append(@, [q |-> q, dist |-> Len(stack[t]) - 1])]
           /\ stack' = [stack EXCEPT ![t] = SetTop(t,
                 [Top(t) EXCEPT
                    !.implementations =
                        find_implementations(session, Top(t).base_class, HierLimit),
                    !.at = "branch"])]
    /\ UNCHANGED <<pc, args, retTree>>
    /\ HierUnchanged

(* the search raises: nothing in get_class_hierarchy or find_implementations *)
(* catches, so every activation is unwound and the caller sees the error    *)
HierRaise(t) ==
    /\ pc[t] = "hier"
    /\ Top(t).at = "call"
    /\ LET q == FindImplQuery(Top(t).base_class, HierLimit)
       IN  /\ ~ClientSearch(session.client, q).ok
           /\ queries' = [queries EXCEPT ![t] =
                            Append(@, [q |-> q, dist |-> Len(stack[t]) - 1])]
    /\ stack' = [stack EXCEPT ![t] = <<>>]
    /\ pc' = [pc EXCEPT ![t] = "raised"]
    /\ UNCHANGED <<args, retTree>>
    /\ HierUnchanged

HierRecurse(t) ==
    /\ pc[t] = "hier"
    /\ Top(t).at = "branch"
    /\ Descends(Top(t).depth)
    /\ Top(t).i <= Len(Top(t).implementations)
    /\ stack' = [stack EXCEPT ![t] =
          Append(@, NewFrame(Top(t).implementations[Top(t).i].class,
                             NextDepth(Top(t).depth)))]
    /\ UNCHANGED <<pc, args, retTree, queries>>
    /\ HierUnchanged

HierLeaves(t) ==
    /\ pc[t] = "hier"
    /\ Top(t).at = "branch"
    /\ ~Descends(Top(t).depth)
    /\ stack' = [stack EXCEPT ![t] = SetTop(t,
          [Top(t) EXCEPT !.hierarchy.derived = LeafNodes(Top(t).implementations),
                         !.at = "return"])]
    /\ UNCHANGED <<pc, args, retTree, queries>>
    /\ HierUnchanged

(* a return that reaches the caller only from the outermost activation *)
HierReturnOutermostOnly(t) ==
    /\ pc[t] = "hier"
    /\ Len(stack[t]) = 1
    /\ \/ Top(t).at = "return"
       \/ /\ Top(t).at = "branch"
          /\ Descends(Top(t).depth)
          /\ Top(t).i > Len(Top(t).implementations)
    /\ retTree' = [retTree EXCEPT ![t] = Top(t).hierarchy]
    /\ stack' = [stack EXCEPT ![t] = <<>>]
    /\ pc' = [pc EXCEPT ![t] = "done"]
    /\ UNCHANGED <<args, queries>>
    /\ HierUnchanged

HierReturn(t) ==
    /\ pc[t] = "hier"
    /\ \/ Top(t).at = "return"
       \/ /\ Top(t).at = "branch"
          /\ Descends(Top(t).depth)
          /\ Top(t).i > Len(Top(t).implementations)
    /\ IF Len(stack[t]) = 1
       THEN /\ retTree' = [retTree EXCEPT ![t] = Top(t).hierarchy]
            /\ stack' = [stack EXCEPT ![t] = <<>>]
            /\ pc' = [pc EXCEPT ![t] = "done"]
       ELSE /\ stack' = [stack EXCEPT ![t] =
                  Append(SubSeq(@, 1, Len(@) - 2),
                         AfterReturn(@[Len(@) - 1], Top(t).hierarchy))]
            /\ UNCHANGED <<pc, retTree>>
    /\ UNCHANGED <<args, queries>>
    /\ HierUnchanged

HierStep(t) ==
    \/ HierCall(t)
    \/ HierExpand(t)
    \/ HierRaise(t)
    \/ HierRecurse(t)
    \/ HierLeaves(t)
    \/ HierReturn(t)

-----------------------------------------------------------------------------
(* Specification of one caller building class hierarchies *)

NoArgs == [op |-> "none", base_class |-> "", depth |-> 0]
NoTree == [class |-> "", derived |-> <<>>]
NoKwargs == [set |-> FALSE]

InitLocals ==
    /\ pc = [t \in Threads |-> IF t = 1 THEN "idle" ELSE "off"]
    /\ args = [t \in Threads |-> NoArgs]
    /\ stack = [t \in Threads |-> <<>>]
    /\ all_results = [t \in Threads |-> <<>>]
    /\ idx = [t \in Threads |-> 1]
    /\ seen = [t \in Threads |-> {}]
    /\ unique_results = [t \in Threads |-> <<>>]
    /\ retTree = [t \in Threads |-> NoTree]
    /\ retList = [t \in Threads |-> <<>>]
    /\ queries = [t \in Threads |-> <<>>]
    /\ handed = NoKwargs
    /\ sent = NoKwargs

HierResponses ==
    {Ok(rows) : rows \in SeqsUpTo(HierRows, MaxFan)} \cup {Failure}

Init ==
    /\ session = NewAnalyzer(DefaultRepo)
    /\ \E f \in [ClassQueries -> HierResponses] :
          responses = [q \in AllQueries |->
                          IF q \in ClassQueries THEN f[q] ELSE Ok(<<>>)]
    /\ InitLocals

Next == HierStep(1)

Spec == Init /\ [][Next]_vars

FairSpec == Spec /\ WF_vars(Next)

-----------------------------------------------------------------------------
(* find_method_calls, one step per action *)

(* line 79: if not results *)
NoResultsAlways(results) == TRUE

NoResults(results) == results = <<>>

(* line 91: key = (result[0], result[1]) *)
DedupKeyPathOnly(result) == <<result[1]>>

DedupKey(result) == <<result[1], result[2]>>

MethodSymbolQuery(a) == SymbolQuery(FullMethod(a.class_name, a.method_name), a.limit)

MethodIdQuery(a) == IdQuery(<<a.method_name>>, a.limit)

CallsUnchanged ==
    UNCHANGED <<session, responses, stack, retTree, handed, sent>>

CallsCall(t) ==
    /\ pc[t] = "idle"
    /\ \E c \in ClassNames, m \in MethodNames :
          args' = [args EXCEPT ![t] =
                      [op |-> "calls", class_name |-> c, method_name |-> m,
                       limit |-> CallsLimit]]
    /\ pc' = [pc EXCEPT ![t] = "symbol"]
    /\ UNCHANGED <<all_results, idx, seen, unique_results, retList, queries>>
    /\ CallsUnchanged

CallsSymbol(t) ==
    /\ pc[t] = "symbol"
    /\ LET q == MethodSymbolQuery(args[t])
           r == ClientSearch(session.client, q)
       IN  /\ r.ok
           /\ queries' = [queries EXCEPT ![t] = Append(@, [q |-> q, dist |-> 0])]
           /\ all_results' = [all_results EXCEPT ![t] = r.rows]
           /\ pc' = [pc EXCEPT ![t] =
                        IF NoResults(r.rows) THEN "fallback" ELSE "dedup"]
    /\ UNCHANGED <<args, idx, seen, unique_results, retList>>
    /\ CallsUnchanged

CallsFallback(t) ==
    /\ pc[t] = "fallback"
    /\ LET q == MethodIdQuery(args[t])
           r == ClientSearch(session.client, q)
       IN  /\ r.ok
           /\ queries' = [queries EXCEPT ![t] = Append(@, [q |-> q, dist |-> 0])]
           /\ all_results' = [all_results EXCEPT ![t] = r.rows]
    /\ pc' = [pc EXCEPT ![t] = "dedup"]
    /\ UNCHANGED <<args, idx, seen, unique_results, retList>>
    /\ CallsUnchanged

(* either search raises: find_method_calls catches nothing *)
CallsRaise(t) ==
    /\ pc[t] \in {"symbol", "fallback"}
    /\ LET q == IF pc[t] = "symbol" THEN MethodSymbolQuery(args[t])
                ELSE MethodIdQuery(args[t])
       IN  /\ ~ClientSearch(session.client, q).ok
           /\ queries' = [queries EXCEPT ![t] = Append(@, [q |-> q, dist |-> 0])]
    /\ pc' = [pc EXCEPT ![t] = "raised"]
    /\ UNCHANGED <<args, all_results, idx, seen, unique_results, retList>>
    /\ CallsUnchanged

(* the dedup loop with seen kept on the analyzer, one set for all callers *)
DedupStepSharedSeen(t) ==
    /\ pc[t] = "dedup"
    /\ idx[t] <= Len(all_results[t])
    /\ LET result == all_results[t][idx[t]]
           key == DedupKey(result)
       IN  IF key \notin seen[1]
           THEN /\ seen' = [seen EXCEPT ![1] = @ \cup {key}]
                /\ unique_results' = [unique_results EXCEPT ![t] = Append(@, result)]
           ELSE UNCHANGED <<seen, unique_results>>
    /\ idx' = [idx EXCEPT ![t] = @ + 1]
    /\ UNCHANGED <<pc, args, all_results, retList, queries>>
    /\ CallsUnchanged

DedupStep(t) ==
    /\ pc[t] = "dedup"
    /\ idx[t] <= Len(all_results[t])
    /\ LET result == all_results[t][idx[t]]
           key == DedupKey(result)
       IN  IF key \notin seen[t]
           THEN /\ seen' = [seen EXCEPT ![t] = @ \cup {key}]
                /\ unique_results' = [unique_results EXCEPT ![t] = Append(@, result)]
           ELSE UNCHANGED <<seen, unique_results>>
    /\ idx' = [idx EXCEPT ![t] = @ + 1]
    /\ UNCHANGED <<pc, args, all_results, retList, queries>>
    /\ CallsUnchanged

CallsReturn(t) ==
    /\ pc[t] = "dedup"
    /\ idx[t] > Len(all_results[t])
    /\ retList' = [retList EXCEPT ![t] = unique_results[t]]
    /\ pc' = [pc EXCEPT ![t] = "done"]
    /\ UNCHANGED <<args, all_results, idx, seen, unique_results, queries>>
    /\ CallsUnchanged

CallsStep(t) ==
    \/ CallsCall(t)
    \/ CallsSymbol(t)
    \/ CallsFallback(t)
    \/ CallsRaise(t)
    \/ DedupStep(t)
    \/ CallsReturn(t)

MethodResponses ==
    {Ok(rows) : rows \in SeqsUpTo(CallRows, MaxRows)} \cup {Failure}

InitCalls ==
    /\ session = NewAnalyzer(DefaultRepo)
    /\ \E f \in [MethodQueries -> MethodResponses] :
          responses = [q \in AllQueries |->
                          IF q \in MethodQueries THEN f[q] ELSE Ok(<<>>)]
    /\ InitLocals

NextCalls == CallsStep(1)

SpecCalls == InitCalls /\ [][NextCalls]_vars

-----------------------------------------------------------------------------
(* searchfox.search(): the module-level wrapper, and the client behind it *)

None == "<None>"

SearchArgs ==
    [op : {"search"},
     query : {None, "foo"}, repo : {DefaultRepo}, path : {None, "^dom/media"},
     case : {FALSE}, regexp : {FALSE}, limit : {0, SearchLimit},
     context : {None}, symbol : {None, "AudioNode"}, id : {None, "CreateGain"},
     cpp : BOOLEAN, c_lang : BOOLEAN, webidl : BOOLEAN, js : BOOLEAN,
     log_requests : {FALSE}]

(* lines 54-67 with the path argument left out *)
ForwardedWithoutPath(a) ==
    [query |-> a.query, path |-> None, case |-> a.case, regexp |-> a.regexp,
     limit |-> a.limit, context |-> a.context, symbol |-> a.symbol, id |-> a.id,
     cpp |-> a.cpp, c_lang |-> a.c_lang, webidl |-> a.webidl, js |-> a.js]

(* lines 54-67: the keyword arguments search() hands to client.search *)
Forwarded(a) ==
    [query |-> a.query, path |-> a.path, case |-> a.case, regexp |-> a.regexp,
     limit |-> a.limit, context |-> a.context, symbol |-> a.symbol, id |-> a.id,
     cpp |-> a.cpp, c_lang |-> a.c_lang, webidl |-> a.webidl, js |-> a.js]

LanguageFilter(kw) ==
    {l \in {"cpp", "c", "webidl", "js"} :
        \/ l = "cpp" /\ kw.cpp
        \/ l = "c" /\ kw.c_lang
        \/ l = "webidl" /\ kw.webidl
        \/ l = "js" /\ kw.js}

Indexed(kw) == kw.symbol # None \/ kw.id # None

(* the query builder of the compiled client: a query that names nothing   *)
(* to search for, or a limit <= 0, is a validation error                  *)
Invalid(kw) ==
    \/ kw.query = None /\ kw.symbol = None /\ kw.id = None
    \/ kw.limit <= 0

(* the query builder of the compiled client: an indexed query carries no  *)
(* free text; the path and language filters always pass                   *)
Build(kw) ==
    [free_text |-> IF Indexed(kw) THEN None ELSE kw.query,
     symbol |-> kw.symbol, identifier |-> kw.id,
     path_filter |-> kw.path, language_filter |-> LanguageFilter(kw),
     case_sensitive |-> kw.case, is_regexp |-> kw.regexp,
     limit |-> kw.limit, context_lines |-> kw.context]

SearchUnchanged ==
    UNCHANGED <<session, responses, stack, all_results, idx, seen,
                unique_results, retTree, queries>>

SearchCall ==
    /\ pc[1] = "idle"
    /\ \E a \in SearchArgs :
          /\ args' = [args EXCEPT ![1] = a]
          /\ handed' = [set |-> TRUE,
                        client |-> NewSearchfoxClient(a.repo, a.log_requests),
                        kw |-> Forwarded(a)]
    /\ pc' = [pc EXCEPT ![1] = "client"]
    /\ UNCHANGED <<sent, retList>>
    /\ SearchUnchanged

ClientReject ==
    /\ pc[1] = "client"
    /\ Invalid(handed.kw)
    /\ pc' = [pc EXCEPT ![1] = "raised"]
    /\ UNCHANGED <<args, handed, sent, retList>>
    /\ SearchUnchanged

ClientSend ==
    /\ pc[1] = "client"
    /\ ~Invalid(handed.kw)
    /\ sent' = [set |-> TRUE, params |-> Build(handed.kw)]
    /\ pc' = [pc EXCEPT ![1] = "sent"]
    /\ UNCHANGED <<args, handed, retList>>
    /\ SearchUnchanged

(* line 54: search() returns what client.search returns, or its error *)
SearchReturn ==
    /\ pc[1] = "sent"
    /\ \E r \in {Ok(rows) : rows \in SeqsUpTo({<<"f1", 1, <<"x">>>>}, 1)} \cup {Failure} :
          IF r.ok
          THEN /\ retList' = [retList EXCEPT ![1] = r.rows]
               /\ pc' = [pc EXCEPT ![1] = "done"]
          ELSE /\ pc' = [pc EXCEPT ![1] = "raised"]
               /\ UNCHANGED retList
    /\ UNCHANGED <<args, handed, sent>>
    /\ SearchUnchanged

InitSearch ==
    /\ session = NewAnalyzer(DefaultRepo)
    /\ responses = [q \in AllQueries |-> Ok(<<>>)]
    /\ InitLocals

NextSearch ==
    \/ SearchCall
    \/ ClientReject
    \/ ClientSend
    \/ SearchReturn

SpecSearch == InitSearch /\ [][NextSearch]_vars

-----------------------------------------------------------------------------
(* Two callers on one analyzer, their steps interleaved *)

ConcDepths == 0 .. ConcDepth

ConcClassResponses ==
    {Ok(<<>>), Ok(<<<<"a.h", 1, LineB>>>>),
     Ok(<<<<"a.h", 1, LineA>>, <<"a.h", 2, LineB>>>>), Failure}

ConcMethodResponses ==
    {Ok(<<>>), Ok(<<<<"f1", 1, <<"x">>>>, <<"f1", 1, <<"y">>>>, <<"f2", 1, <<"x">>>>>>),
     Failure}

ConcHierCall(t) == HierStart(t, ConcDepths)

ConcStep(t) ==
    \/ ConcHierCall(t)
    \/ HierExpand(t)
    \/ HierRaise(t)
    \/ HierRecurse(t)
    \/ HierLeaves(t)
    \/ HierReturn(t)
    \/ CallsStep(t)

InitConc ==
    /\ session = NewAnalyzer(DefaultRepo)
    /\ \E f \in [ClassQueries -> ConcClassResponses],
          g \in [MethodQueries -> ConcMethodResponses] :
          responses = [q \in AllQueries |-> IF q \in ClassQueries THEN f[q] ELSE g[q]]
    /\ pc = [t \in Threads |-> "idle"]
    /\ args = [t \in Threads |-> NoArgs]
    /\ stack = [t \in Threads |-> <<>>]
    /\ all_results = [t \in Threads |-> <<>>]
    /\ idx = [t \in Threads |-> 1]
    /\ seen = [t \in Threads |-> {}]
    /\ unique_results = [t \in Threads |-> <<>>]
    /\ retTree = [t \in Threads |-> NoTree]
    /\ retList = [t \in Threads |-> <<>>]
    /\ queries = [t \in Threads |-> <<>>]
    /\ handed = NoKwargs
    /\ sent = NoKwargs

NextConc == \E t \in Threads : ConcStep(t)

SpecConc == InitConc /\ [][NextConc]_vars

-----------------------------------------------------------------------------
(* The operations run alone, from call to return: [ok, value], where ok   *)
(* is FALSE when a search raised                                          *)

Raised == [ok |-> FALSE]

RECURSIVE get_class_hierarchy(_, _, _)
get_class_hierarchy(self, base_class, depth) ==
    LET r == ClientSearch(self.client, FindImplQuery(base_class, HierLimit))
    IN  IF ~r.ok THEN Raised
        ELSE LET implementations == ParseImplementations(r.rows)
             IN  IF Descends(depth)
                 THEN LET subs == [k \in 1..Len(implementations) |->
                                     get_class_hierarchy(self, implementations[k].class,
                                                         NextDepth(depth))]
                      IN  IF \E k \in 1..Len(subs) : ~subs[k].ok THEN Raised
                          ELSE [ok |-> TRUE,
                                value |-> [class |-> base_class,
                                           derived |-> [k \in 1..Len(subs) |-> subs[k].value]]]
                 ELSE [ok |-> TRUE,
                       value |-> [class |-> base_class,
                                  derived |-> LeafNodes(implementations)]]

RECURSIVE RemoveDuplicates(_, _)
RemoveDuplicates(rows, seen_keys) ==
    IF rows = <<>> THEN <<>>
    ELSE IF DedupKey(Head(rows)) \in seen_keys
         THEN RemoveDuplicates(Tail(rows), seen_keys)
         ELSE <<Head(rows)>>
              \o RemoveDuplicates(Tail(rows), seen_keys \cup {DedupKey(Head(rows))})

find_method_calls(self, a) ==
    LET first == ClientSearch(self.client, MethodSymbolQuery(a))
        second == ClientSearch(self.client, MethodIdQuery(a))
    IN  IF ~first.ok THEN Raised
        ELSE IF NoResults(first.rows)
             THEN IF ~second.ok THEN Raised
                  ELSE [ok |-> TRUE, value |-> RemoveDuplicates(second.rows, {})]
             ELSE [ok |-> TRUE, value |-> RemoveDuplicates(first.rows, {})]

RunAlone(self, a) ==
    IF a.op = "hier" THEN get_class_hierarchy(self, a.base_class, a.depth)
    ELSE find_method_calls(self, a)

-----------------------------------------------------------------------------
(* Trees and the expansion relation, as the claims speak of them *)

Max(a, b) == IF a >= b THEN a ELSE b

(* the number of levels get_class_hierarchy(_, depth) recurses through *)
Levels(depth) == Max(depth, 0)

(* the labels one hop from a class: the captured class names of the rows  *)
(* of its response that match, in the order of the response               *)
ExpandLabels(label) ==
    LET rows == responses[SymbolQuery(<<label>>, HierLimit)].rows
        hit == SelectSeq(rows, LAMBDA r : ReSearchClass(r[3]) # 0)
    IN  [k \in 1..Len(hit) |-> hit[k][3][ReSearchClass(hit[k][3])]]

ExpandFails(label) == ~responses[SymbolQuery(<<label>>, HierLimit)].ok

ChildLabels(node) == [k \in 1..Len(node.derived) |-> node.derived[k].class]

RECURSIVE Height(_)
Height(node) ==
    IF node.derived = <<>> THEN 0
    ELSE 1 + (CHOOSE h \in {Height(node.derived[k]) : k \in 1..Len(node.derived)} :
                 \A k \in 1..Len(node.derived) : Height(node.derived[k]) <= h)

(* the nodes of a tree with their distance from the root, in pre-order,   *)
(* down to distance maxd                                                  *)
RECURSIVE Preorder(_, _, _)
RECURSIVE PreorderAll(_, _, _)
Preorder(node, dist, maxd) ==
    IF dist > maxd THEN <<>>
    ELSE <<[node |-> node, dist |-> dist]>> \o PreorderAll(node.derived, dist + 1, maxd)
PreorderAll(nodes, dist, maxd) ==
    IF nodes = <<>> THEN <<>>
    ELSE Preorder(Head(nodes), dist, maxd) \o PreorderAll(Tail(nodes), dist, maxd)

HierDone(t) == pc[t] = "done" /\ args[t].op = "hier"

Active == {t \in Threads : pc[t] # "off"}

-----------------------------------------------------------------------------
(* Lists of rows, as the claims speak of them *)

RowKey(row) == <<row[1], row[2]>>

(* the position at which a key is first met in a list of rows *)
FirstAt(rows, key) ==
    CHOOSE k \in 1..Len(rows) :
        /\ RowKey(rows[k]) = key
        /\ \A j \in 1..(k - 1) : RowKey(rows[j]) # key

(* the rows that are the first of their key, in the order of the list *)
FirstSeen(rows) ==
    LET F == {k \in 1..Len(rows) : \A j \in 1..(k - 1) : RowKey(rows[j]) # RowKey(rows[k])}
    IN  [i \in 1..Cardinality(F) |->
            rows[CHOOSE k \in F : Cardinality({j \in F : j <= k}) = i]]

RECURSIVE Concat(_)
Concat(lists) == IF lists = <<>> THEN <<>> ELSE Head(lists) \o Concat(Tail(lists))

(* the rows the queries a caller issued have returned, in order of issue *)
Collected(t) == Concat([k \in 1..Len(queries[t]) |-> responses[queries[t][k].q].rows])

CallsDone(t) == pc[t] = "done" /\ args[t].op = "calls"

-----------------------------------------------------------------------------
(* C5: the list find_method_calls returns holds no two rows with the same *)
(* (path, line_number) key; every key among the collected rows appears in *)
(* it exactly once, as the row first seen with that key; and the rows     *)
(* keep the order in which their keys were first met.                     *)
C5_DedupFirstSeen ==
    \A t \in Active :
        CallsDone(t) =>
            LET out == retList[t]
                in == all_results[t]
            IN  /\ \A i, j \in 1..Len(out) : i # j => RowKey(out[i]) # RowKey(out[j])
                /\ \A k \in 1..Len(in) :
                      Cardinality({i \in 1..Len(out) : RowKey(out[i]) = RowKey(in[k])}) = 1
                /\ \A i \in 1..Len(out) :
                      /\ \E k \in 1..Len(in) : RowKey(in[k]) = RowKey(out[i])
                      /\ out[i] = in[FirstAt(in, RowKey(out[i]))]
                /\ \A i, j \in 1..Len(out) :
                      i < j => FirstAt(in, RowKey(out[i])) < FirstAt(in, RowKey(out[j]))
                /\ in = Collected(t)

C5_Witness ==
    \E t \in Active :
        /\ CallsDone(t)
        /\ all_results[t] = <<<<"f1", 1, <<"y">>>>, <<"f1", 2, <<"x">>>>, <<"f1", 1, <<"x">>>>>>
        /\ retList[t] = <<<<"f1", 1, <<"y">>>>, <<"f1", 2, <<"x">>>>>>

-----------------------------------------------------------------------------
(* C9: the exact-symbol query is issued first; the identifier query is    *)
(* issued if and only if the symbol query returned an empty result, and   *)
(* only after it; at most two queries are issued; the returned list is    *)
(* the duplicate-free combination of the results of the issued queries.   *)
C9_FallbackOrder ==
    \A t \in Active :
        args[t].op = "calls" =>
            LET qs == queries[t]
                sym == MethodSymbolQuery(args[t])
                ident == MethodIdQuery(args[t])
            IN  /\ Len(qs) <= 2
                /\ Len(qs) >= 1 => qs[1].q = sym
                /\ Len(qs) = 2 =>
                      /\ qs[2].q = ident
                      /\ responses[sym].ok
                      /\ responses[sym].rows = <<>>
                /\ pc[t] = "symbol" <=> qs = <<>>
                /\ pc[t] \in {"dedup", "done"} =>
                      /\ Len(qs) = 2 <=> responses[sym].rows = <<>>
                      /\ \A k \in 1..Len(qs) : responses[qs[k].q].ok
                /\ pc[t] = "done" => retList[t] = FirstSeen(Collected(t))

C9_Witness ==
    \E t \in Active :
        /\ CallsDone(t)
        /\ Len(queries[t]) = 2
        /\ Len(Collected(t)) = 3
        /\ Len(retList[t]) = 2

C9_WitnessNoFallback ==
    \E t \in Active :
        /\ CallsDone(t)
        /\ Len(queries[t]) = 1
        /\ responses[MethodIdQuery(args[t])].rows # <<>>
        /\ Len(retList[t]) = 2

-----------------------------------------------------------------------------
(* C1: a traversal invoked with max_depth = 0 returns a node whose        *)
(* children list is empty, whatever the expansion of the root yields.     *)
C1_DepthZeroChildless ==
    \A t \in Active :
        (HierDone(t) /\ args[t].depth = 0) => retTree[t].derived = <<>>

(* C1, as the code has it: with depth = 0 the returned node lists the     *)
(* one-hop expansion of the root, each entry a childless leaf, and the    *)
(* expansion is queried for the root only.                                *)
C1_DepthZeroOneLevel ==
    \A t \in Active :
        (HierDone(t) /\ args[t].depth = 0) =>
            /\ retTree[t].class = args[t].base_class
            /\ ChildLabels(retTree[t]) = ExpandLabels(args[t].base_class)
            /\ \A k \in 1..Len(retTree[t].derived) :
                  retTree[t].derived[k].derived = <<>>
            /\ Len(queries[t]) = 1

C1_Witness ==
    \E t \in Active :
        /\ HierDone(t)
        /\ args[t].depth = 0
        /\ Len(retTree[t].derived) = 2

-----------------------------------------------------------------------------
(* C2: a label that already occurs among the ancestors on the current     *)
(* path from the root is never passed to the expansion again.             *)
C2_NoReexpansion ==
    \A t \in Active :
        \A k \in 2..Len(stack[t]) :
            stack[t][k].at # "call" =>
                \A j \in 1..(k - 1) :
                    stack[t][j].base_class # stack[t][k].base_class

-----------------------------------------------------------------------------
(* C3: if the expansion fails for exactly one of several sibling          *)
(* branches, the traversal still returns a tree and the failure does not  *)
(* reach the caller.                                                      *)
OneSiblingFails(base_class, depth) ==
    /\ depth > 0
    /\ ~ExpandFails(base_class)
    /\ LET kids == ExpandLabels(base_class)
       IN  /\ Len(kids) >= 2
           /\ Cardinality({k \in 1..Len(kids) : ExpandFails(kids[k])}) = 1

C3_FailureIsolated ==
    \A t \in Active :
        (args[t].op = "hier" /\ OneSiblingFails(args[t].base_class, args[t].depth))
            => pc[t] # "raised"

-----------------------------------------------------------------------------
(* C4: for every depth and every expansion relation of finite fan-out,    *)
(* cyclic ones included, the traversal eventually terminates: it returns  *)
(* a tree, or the error of an expansion that failed.                      *)
C4_Terminates == <>(pc[1] = "done" \/ pc[1] = "raised")

C4_Witness ==
    /\ HierDone(1)
    /\ args[1].depth = MaxDepth
    /\ args[1].base_class = "A"
    /\ ExpandLabels("A") = <<"B">>
    /\ ExpandLabels("B") = <<"A">>
    /\ Height(retTree[1]) = MaxDepth + 1

-----------------------------------------------------------------------------
(* C8: in every node of the returned tree the children appear in the      *)
(* order in which the expansion returned their labels, which is the order *)
(* of the search rows with the rows that name no class dropped.           *)
C8_ChildrenInExpandOrder ==
    \A t \in Active :
        HierDone(t) =>
            LET ns == Preorder(retTree[t], 0, Levels(args[t].depth))
            IN  \A k \in 1..Len(ns) :
                    ChildLabels(ns[k].node) = ExpandLabels(ns[k].node.class)

C8_Witness ==
    \E t \in Active :
        /\ HierDone(t)
        /\ args[t].depth >= 1
        /\ args[t].base_class = "A"
        /\ responses[SymbolQuery(<<"A">>, HierLimit)].rows
              = <<<<"a.h", 1, LineB>>, <<"a.h", 1, LineA>>>>
        /\ responses[SymbolQuery(<<"B">>, HierLimit)].rows
              = <<<<"a.h", 1, LineN>>, <<"a.h", 1, LineA>>>>
        /\ ChildLabels(retTree[t]) = <<"B", "A">>
        /\ ChildLabels(retTree[t].derived[1]) = <<"A">>

-----------------------------------------------------------------------------
(* C10: every node of the returned tree lies at distance at most d+1 from *)
(* the root; find_implementations is called exactly once for each node at *)
(* distance 0..d, in pre-order, and never for a node at distance d+1;     *)
(* every node at distance d+1 is childless; a negative d behaves like 0.  *)
C10_DepthBound ==
    \A t \in Active :
        HierDone(t) =>
            LET d == Levels(args[t].depth)
                inner == Preorder(retTree[t], 0, d)
                all == Preorder(retTree[t], 0, d + 1)
            IN  /\ Height(retTree[t]) <= d + 1
                /\ queries[t] =
                      [k \in 1..Len(inner) |->
                          [q |-> SymbolQuery(<<inner[k].node.class>>, HierLimit),
                           dist |-> inner[k].dist]]
                /\ \A k \in 1..Len(all) :
                      all[k].dist = d + 1 => all[k].node.derived = <<>>
                /\ args[t].depth < 0 =>
                      /\ Len(queries[t]) = 1
                      /\ retTree[t] =
                            [class |-> args[t].base_class,
                             derived |-> [k \in 1..Len(ExpandLabels(args[t].base_class)) |->
                                 [class |-> ExpandLabels(args[t].base_class)[k],
                                  derived |-> <<>>]]]

C10_Witness ==
    \E t \in Active :
        /\ HierDone(t)
        /\ args[t].depth = MaxDepth
        /\ Height(retTree[t]) = MaxDepth + 1
        /\ Len(queries[t]) > MaxDepth + 1

C10_WitnessNegative ==
    \E t \in Active :
        /\ HierDone(t)
        /\ args[t].depth < 0
        /\ retTree[t].derived # <<>>

-----------------------------------------------------------------------------
-----------------------------------------------------------------------------
(* C7: under every interleaving of two callers on one analyzer, the       *)
(* analyzer's configuration (repo, client) is never modified and each     *)
(* operation ends as it would when run alone against the same responses:  *)
(* with the same returned value, or raising where it would raise.         *)
C7_ConcurrentCallersIsolated ==
    /\ session = NewAnalyzer(DefaultRepo)
    /\ \A t \in Active :
          /\ pc[t] = "done" =>
                /\ RunAlone(session, args[t]).ok
                /\ args[t].op = "hier" => retTree[t] = RunAlone(session, args[t]).value
                /\ args[t].op = "calls" => retList[t] = RunAlone(session, args[t]).value
          /\ pc[t] = "raised" => ~RunAlone(session, args[t]).ok

C7_Witness ==
    /\ HierDone(1)
    /\ Height(retTree[1]) >= 2
    /\ args[2].op = "calls"
    /\ pc[2] = "dedup"
    /\ idx[2] = 2
    /\ Len(queries[2]) = 2

C7_WitnessBothDone ==
    /\ CallsDone(1)
    /\ CallsDone(2)
    /\ Len(retList[1]) = 2
    /\ retList[2] = retList[1]

====
